---- MODULE Spec2Model ----
(***************************************************************************)
(* c3bottles: the drop point model (c3bottles/model/drop_point.py) and the *)
(* create view (c3bottles/views/create.py) as a state machine.             *)
(*                                                                         *)
(* The database is the function dps from drop point numbers to rows; the   *)
(* rows of the Location, Report and Visit tables are kept with the drop    *)
(* point they belong to, in insertion order.  The prometheus gauge         *)
(* metrics.drop_point_count is the function metrics.  The wall clock is    *)
(* now.  last_result is the outcome of the last call (return or raise);    *)
(* the clock leaves it alone.  writers holds the requests that are inside  *)
(* the setter of last_state, each between two of its statements.           *)
(***************************************************************************)
EXTENDS Integers, Sequences, FiniteSets, TLC

VARIABLES dps, metrics, now, ever_created, last_result, writers

vars == <<dps, metrics, now, ever_created, last_result, writers>>

\* ------------------------------------------------------------------ bounds
MaxNum == 2
MaxTime == 1
MaxEvents == 3

\* --------------------------------------------------------------- constants
\* A DateTime column that is NULL / a time argument that is None.
NoTime == -1

\* Report.states: index 1 (0-based) is the column default of last_state and
\* the last entry is the state an emptying visit leaves behind.
Report_states == <<"DEFAULT", "NEW", "FULL", "EMPTY">>

Visit_actions == <<"EMPTIED", "NO_ACTION">>

States == {Report_states[i] : i \in 1..Len(Report_states)}

Actions == {Visit_actions[i] : i \in 1..Len(Visit_actions)}

\* A column default that takes the first entry of Report.states.
default_last_state_first == Report_states[1]

\* The default of the _last_state column: Report.states[1] (0-based).
default_last_state == Report_states[2]

\* Report.states[-1]
empty_state == Report_states[Len(Report_states)]

\* The default of the category_id column.
column_default_category_id == 1

\* The default of the category_id parameter of DropPoint.__init__.
default_category_id == 0

\* c3bottles.model.category.all_categories: the ids of the category table.
\* The create view builds every drop point with the constructor's default,
\* so that id is a known category, next to category 1 of the column default.
all_categories == {0, 1}

\* An id that is not in the category table.
unknown_category == 2

\* ------------------------------------------------------------------ inputs
\* What a caller can pass as number: something int() rejects, or an integer.
NotANumber == [isnum |-> FALSE, val |-> 0]

Num(n) == [isnum |-> TRUE, val |-> n]

NumberInputs == {NotANumber} \cup {Num(n) : n \in 0..MaxNum}

\* What a caller can pass as time: None, an object that is no datetime, or a
\* datetime (possibly in the future).
TimeNone == [kind |-> "none", val |-> NoTime]

TimeBad == [kind |-> "bad", val |-> NoTime]

TimeAt(t) == [kind |-> "dt", val |-> t]

TimeInputs == {TimeNone, TimeBad} \cup {TimeAt(t) : t \in 0..MaxTime}

CategoryInputs == all_categories \cup {unknown_category}

Keys == States \X all_categories

\* ----------------------------------------------------------------- helpers
\* A lookup that skips the drop points that have been removed.
query_get_active(number) ==
    IF number \in DOMAIN dps /\ dps[number].removed = NoTime THEN {number} ELSE {}

\* DropPoint.query.get(number): the row with that primary key, removed or not.
query_get(number) == IF number \in DOMAIN dps THEN {number} ELSE {}

isinstance_datetime(time) == time.kind = "dt"

\* "time if time else datetime.now()": any object that is not None is truthy.
time_or_now(time) == IF time.kind = "none" THEN now ELSE time.val

Last_row(rows) == rows[Len(rows)]

\* list.append on the errors list
Append1(errors, cond, entry) == IF cond THEN Append(errors, entry) ELSE errors

\* metrics.drop_point_count.labels(state=..., category=...).inc() / .dec()
inc(m, state, category) == [m EXCEPT ![<<state, category>>] = @ + 1]

dec(m, state, category) == [m EXCEPT ![<<state, category>>] = @ - 1]

\* ------------------------------------------------------- DropPoint.__init__
\* The errors collected by lines 69-92, in order.
number_errors(number) ==
    IF ~number.isnum
    THEN << <<"number", "not a number">> >>
    ELSE Append1(Append1(<<>>, number.val < 1, <<"number", "not positive">>),
                 query_get(number.val) # {}, <<"number", "exists">>)

category_errors(category_id) ==
    IF category_id \in all_categories
    THEN <<>>
    ELSE << <<"cat_id", "invalid category">> >>

time_errors(time) ==
    Append1(Append1(<<>>, time.kind # "none" /\ ~isinstance_datetime(time),
                    <<"DropPoint", "not a datetime">>),
            isinstance_datetime(time) /\ time.val > now,
            <<"DropPoint", "in the future">>)

init_errors(number, category_id, time) ==
    number_errors(number) \o category_errors(category_id) \o time_errors(time)

\* Location.__init__: raises ValueError with its own errors, or adds the row.
location_errors(loc_valid) ==
    IF loc_valid THEN <<>> ELSE << <<"Location", "invalid location">> >>

\* The ValueError raised by the constructor, <<>> if it returns.
raised_errors(number, category_id, loc_valid, time) ==
    IF init_errors(number, category_id, time) # <<>>
    THEN init_errors(number, category_id, time)
    ELSE location_errors(loc_valid)

\* A first location stamped with the clock instead of the creation time.
new_row_location_now(category_id, time) ==
    [category_id |-> category_id,
     time        |-> time_or_now(time),
     removed     |-> NoTime,
     locations   |-> << [time |-> now] >>,
     reports     |-> <<>>,
     visits      |-> <<>>,
     last_state  |-> default_last_state]

new_row(category_id, time) ==
    [category_id |-> category_id,
     time        |-> time_or_now(time),
     removed     |-> NoTime,
     locations   |-> << [time |-> time_or_now(time)] >>,
     reports     |-> <<>>,
     visits      |-> <<>>,
     last_state  |-> default_last_state]

\* db.session.add(self); db.session.commit()
session_add(number, row) ==
    [n \in DOMAIN dps \cup {number} |-> IF n = number THEN row ELSE dps[n]]

\* The outcome of a constructor call: what it raised, and, where the caller
\* keeps them, the arguments it was given.
create_result(caller, number, errors, args) ==
    IF args = <<>>
    THEN [op |-> caller, number |-> number, ok |-> errors = <<>>, errors |-> errors]
    ELSE [op |-> caller, number |-> number, ok |-> errors = <<>>, errors |-> errors,
          args |-> args]

construct(number, category_id, loc_valid, time, caller, args) ==
    LET errors == raised_errors(number, category_id, loc_valid, time)
    IN  /\ last_result' = create_result(caller, number, errors, args)
        /\ IF errors # <<>>
           THEN UNCHANGED <<dps, metrics, ever_created>>
           ELSE /\ dps' = session_add(number.val, new_row(category_id, time))
                /\ metrics' = inc(metrics, default_last_state, category_id)
                /\ ever_created' = ever_created \cup {number.val}
        /\ UNCHANGED <<now, writers>>

DropPoint(number, category_id, loc_valid, time) ==
    construct(number, category_id, loc_valid, time, "DropPoint", <<>>)

\* The same call, with its arguments kept next to its outcome.
DropPoint_args(number, category_id, loc_valid, time) ==
    construct(number, category_id, loc_valid, time, "DropPoint",
              [category_id |-> category_id, loc_valid |-> loc_valid, time |-> time])

\* views/create.py: POST /create
create_dp(number, loc_valid) ==
    construct(number, default_category_id, loc_valid, TimeNone, "create_dp", <<>>)

\* ---------------------------------------------------------- DropPoint.remove
\* remove() without the check of line 127.
remove_errors_unguarded(n, time) ==
    IF time.kind # "none" /\ ~isinstance_datetime(time)
    THEN << <<"TypeError", "not a datetime">> >>
    ELSE IF time.kind # "none" /\ time.val > now
    THEN << <<"ValueError", "in the future">> >>
    ELSE <<>>

\* remove() without the check of line 133.
remove_errors_any_time(n, time) ==
    IF dps[n].removed # NoTime
    THEN << <<"RuntimeError", "already removed">> >>
    ELSE IF time.kind # "none" /\ ~isinstance_datetime(time)
    THEN << <<"TypeError", "not a datetime">> >>
    ELSE <<>>

\* The exception remove() raises, <<>> if it returns.
remove_errors(n, time) ==
    IF dps[n].removed # NoTime
    THEN << <<"RuntimeError", "already removed">> >>
    ELSE IF time.kind # "none" /\ ~isinstance_datetime(time)
    THEN << <<"TypeError", "not a datetime">> >>
    ELSE IF time.kind # "none" /\ time.val > now
    THEN << <<"ValueError", "in the future">> >>
    ELSE <<>>

\* A removal that also purges the reports of the drop point.
removed_row_purged(row, t) == [row EXCEPT !.removed = t, !.reports = <<>>]

\* self.removed = time if time else datetime.now()
removed_row(row, t) == [row EXCEPT !.removed = t]

remove(n, time) ==
    LET errors == remove_errors(n, time)
    IN  /\ n \in DOMAIN dps
        /\ last_result' = [op |-> "remove", number |-> Num(n), ok |-> errors = <<>>,
                           errors |-> errors, time |-> time]
        /\ IF errors # <<>>
           THEN UNCHANGED <<dps, metrics>>
           ELSE /\ dps' = [dps EXCEPT ![n] = removed_row(@, time_or_now(time))]
                /\ metrics' = dec(metrics, dps[n].last_state, dps[n].category_id)
        /\ UNCHANGED <<now, ever_created, writers>>

\* ------------------------------------------------------ report() and visit()
\* The number of rows of the Report and Visit tables, and of the rows of the
\* Location table that are not the first location of a drop point.
RECURSIVE count_events(_)
count_events(numbers) ==
    IF numbers = {}
    THEN 0
    ELSE LET n == CHOOSE x \in numbers : TRUE
         IN  Len(dps[n].reports) + Len(dps[n].visits) + (Len(dps[n].locations) - 1)
               + count_events(numbers \ {n})

\* An event is rejected when its timestamp is in the future or precedes the
\* creation of the drop point.
event_errors(n, time, what) ==
    IF time.kind # "none" /\ (time.val > now \/ time.val < dps[n].time)
    THEN << <<what, "invalid time">> >>
    ELSE <<>>

\* A setter that moves the gauge and forgets to write the column.
set_last_state_lost(row, state) == row

\* A setter that does not overwrite the empty state.
set_last_state_sticky(row, state) ==
    IF row.last_state = empty_state THEN row ELSE [row EXCEPT !.last_state = state]

\* The setter of last_state: the gauge moves from the old state to the new
\* one, then the column is written.
set_last_state(row, state) == [row EXCEPT !.last_state = state]

set_last_state_metrics(m, row, state) ==
    inc(dec(m, row.last_state, row.category_id), state, row.category_id)

\* Report(dp, time, state): the row is added and the drop point is set to
\* the reported state, irrespective of the state before.
Report_init(row, state, t) ==
    set_last_state([row EXCEPT !.reports = Append(@, [time |-> t, state |-> state])],
                   state)

\* A visit that always leaves the drop point empty.
Visit_init_always_empty(row, action, t) ==
    set_last_state([row EXCEPT !.visits = Append(@, [time |-> t, action |-> action])],
                   empty_state)

\* Visit(dp, time, action): the row is added and an emptying visit sets the
\* drop point to the empty state; any other visit leaves the state alone.
Visit_init(row, action, t) ==
    LET visited == [row EXCEPT !.visits = Append(@, [time |-> t, action |-> action])]
    IN  IF action = Visit_actions[1]
        THEN set_last_state(visited, empty_state)
        ELSE visited

report(n, state, time) ==
    LET errors == event_errors(n, time, "Report")
    IN  /\ n \in DOMAIN dps
        /\ count_events(DOMAIN dps) < MaxEvents
        /\ last_result' = [op |-> "report", number |-> Num(n), ok |-> errors = <<>>,
                           errors |-> errors]
        /\ IF errors # <<>>
           THEN UNCHANGED <<dps, metrics>>
           ELSE /\ dps' = [dps EXCEPT ![n] = Report_init(@, state, time_or_now(time))]
                /\ metrics' = set_last_state_metrics(metrics, dps[n], state)
        /\ UNCHANGED <<now, ever_created, writers>>

visit(n, action, time) ==
    LET errors == event_errors(n, time, "Visit")
    IN  /\ n \in DOMAIN dps
        /\ count_events(DOMAIN dps) < MaxEvents
        /\ last_result' = [op |-> "visit", number |-> Num(n), ok |-> errors = <<>>,
                           errors |-> errors]
        /\ IF errors # <<>>
           THEN UNCHANGED <<dps, metrics>>
           ELSE /\ dps' = [dps EXCEPT ![n] = Visit_init(@, action, time_or_now(time))]
                /\ metrics' = IF action = Visit_actions[1]
                              THEN set_last_state_metrics(metrics, dps[n], empty_state)
                              ELSE metrics
        /\ UNCHANGED <<now, ever_created, writers>>

\* ------------------------------------------- the setter, statement by statement
\* Two requests served at the same time.
Writers == {"a", "b"}

\* A request that is not inside the setter.
idle == [pc |-> "idle"]

\* The number of requests inside the setter.
in_flight == Cardinality({w \in Writers : writers[w] # idle})

\* A report of state on drop point n enters the setter and executes its first
\* statement: labels(state=self.last_state, ...).dec()
last_state_dec(w, n, state) ==
    /\ writers[w] = idle
    /\ n \in DOMAIN dps
    /\ count_events(DOMAIN dps) + in_flight < MaxEvents
    /\ metrics' = dec(metrics, dps[n].last_state, dps[n].category_id)
    /\ writers' = [writers EXCEPT ![w] = [pc |-> "inc", n |-> n, state |-> state]]
    /\ UNCHANGED <<dps, now, ever_created, last_result>>

\* The second statement: labels(state=state, ...).inc()
last_state_inc(w) ==
    /\ writers[w].pc = "inc"
    /\ metrics' = inc(metrics, writers[w].state, dps[writers[w].n].category_id)
    /\ writers' = [writers EXCEPT ![w].pc = "write"]
    /\ UNCHANGED <<dps, now, ever_created, last_result>>

\* The third statement, self._last_state = state, and the commit of the
\* report that called the setter.
last_state_write(w) ==
    /\ writers[w].pc = "write"
    /\ dps' = [dps EXCEPT ![writers[w].n] = Report_init(@, writers[w].state, now)]
    /\ writers' = [writers EXCEPT ![w] = idle]
    /\ UNCHANGED <<metrics, now, ever_created, last_result>>

\* ------------------------------------------------------- a change of location
\* relationship("Location", order_by="Location.time"): the rows in the order
\* of their timestamps, a new row after the rows with the same timestamp.
RECURSIVE insert_by_time(_, _)
insert_by_time(rows, row) ==
    IF rows = <<>> \/ Last_row(rows).time <= row.time
    THEN Append(rows, row)
    ELSE Append(insert_by_time(SubSeq(rows, 1, Len(rows) - 1), row), Last_row(rows))

\* Location(dp, time=time, ...): a drop point is given a new location.
relocate(n, time) ==
    LET errors == event_errors(n, time, "Location")
    IN  /\ n \in DOMAIN dps
        /\ count_events(DOMAIN dps) < MaxEvents
        /\ last_result' = [op |-> "relocate", number |-> Num(n), ok |-> errors = <<>>,
                           errors |-> errors]
        /\ IF errors # <<>>
           THEN UNCHANGED dps
           ELSE dps' = [dps EXCEPT ![n].locations =
                            insert_by_time(@, [time |-> time_or_now(time)])]
        /\ UNCHANGED <<metrics, now, ever_created, writers>>

\* ------------------------------------------------- get_next_free_number()
\* The query of line 433 with removed drop points filtered out.
query_last_active ==
    {n \in DOMAIN dps : /\ dps[n].removed = NoTime
                        /\ \A m \in DOMAIN dps : dps[m].removed = NoTime => m <= n}

\* DropPoint.query.order_by(desc(DropPoint.number)).limit(1).first()
query_last == {n \in DOMAIN dps : \A m \in DOMAIN dps : m <= n}

get_next_free_number ==
    IF query_last # {}
    THEN (CHOOSE n \in query_last : TRUE) + 1
    ELSE 1

\* ------------------------------------------------------ derived properties
\* A last visit that is the visit recorded last, whatever its timestamp.
last_visit_recorded(row) ==
    IF row.visits = <<>> THEN {} ELSE {Len(row.visits)}

\* self.visits.order_by(Visit.time.desc()).first(): the visits (by position)
\* the query can return, {} for None. Visits with the same greatest timestamp
\* come in an order the database chooses.
last_visit(row) ==
    {i \in DOMAIN row.visits : \A j \in DOMAIN row.visits :
        row.visits[j].time <= row.visits[i].time}

\* A filter that keeps the reports of the moment of the visit too.
is_after_or_at(rep, time) == rep.time >= time

\* Report.time > last_visit.time
is_after(rep, time) == rep.time > time

\* order_by(Report.time.desc()).all() over the reports at the positions idx:
\* every listing without repetition that is non-increasing in time.
desc_orders(reports, idx) ==
    {s \in [1..Cardinality(idx) -> idx] :
        /\ \A i, j \in DOMAIN s : i # j => s[i] # s[j]
        /\ \A i, j \in DOMAIN s : i < j => reports[s[i]].time >= reports[s[j]].time}

\* The lists (of positions in row.reports) new_reports can return.
new_reports(row) ==
    UNION {IF lv = 0
           THEN desc_orders(row.reports, DOMAIN row.reports)
           ELSE desc_orders(row.reports,
                    {i \in DOMAIN row.reports :
                        is_after(row.reports[i], row.visits[lv].time)})
           : lv \in IF last_visit(row) = {} THEN {0} ELSE last_visit(row)}

\* self.reports.count()
total_report_count(row) == Len(row.reports)

\* A count that takes the reports of the moment of the last visit for new.
new_report_count_inclusive(row) ==
    IF last_visit(row) # {}
    THEN Cardinality({i \in DOMAIN row.reports :
             is_after_or_at(row.reports[i],
                            row.visits[CHOOSE v \in last_visit(row) : TRUE].time)})
    ELSE total_report_count(row)

\* self.reports.filter(Report.time > last_visit.time).count(), or the total
\* count without a visit; last visits that tie have the same timestamp.
new_report_count(row) ==
    IF last_visit(row) # {}
    THEN Cardinality({i \in DOMAIN row.reports :
             is_after(row.reports[i],
                      row.visits[CHOOSE v \in last_visit(row) : TRUE].time)})
    ELSE total_report_count(row)

\* The report counts in the dictionary get_dp_info(number) returns, None for
\* a number without drop point.
get_dp_info(number) ==
    IF query_get(number) # {}
    THEN [number        |-> number,
          reports_total |-> total_report_count(dps[number]),
          reports_new   |-> new_report_count(dps[number]),
          removed       |-> dps[number].removed # NoTime]
    ELSE "None"

\* app.config.get("DEFAULT_VISIT_PRIORITY", 1)
DEFAULT_VISIT_PRIORITY == 1

\* The priority factor of the unreachable code below the first return, before
\* it is scaled by the visit interval: 0 for a removed drop point, otherwise
\* the starting priority plus one for every new report.
priority_factor_unscaled(row) ==
    IF row.removed # NoTime
    THEN 0
    ELSE DEFAULT_VISIT_PRIORITY
           + Cardinality({i \in DOMAIN row.reports :
                 \A v \in last_visit(row) : is_after(row.reports[i], row.visits[v].time)})

\* priority_factor: "return 0" is the first statement of the property.
priority_factor(row) == 0

\* The time of the last visit, or the creation time of the drop point.
priority_base_time(row) ==
    IF last_visit(row) # {}
    THEN row.visits[CHOOSE i \in last_visit(row) : TRUE].time
    ELSE row.time

\* (datetime.today() - self.priority_base_time).total_seconds()
total_seconds(row) == now - priority_base_time(row)

\* round(priority, 2): a product of whole numbers has no digit to round.
priority(row) == priority_factor(row) * total_seconds(row)

\* What the caller can pass to get_dps_json as time: None or a datetime.
Cutoffs == {NoTime} \cup (0..MaxTime)

\* get_dps_json without the query over the Visit table.
dp_set_without_visits(time) ==
    {n \in DOMAIN dps : dps[n].time > time}
      \cup {n \in DOMAIN dps : \E i \in DOMAIN dps[n].locations : dps[n].locations[i].time > time}
      \cup {n \in DOMAIN dps : \E i \in DOMAIN dps[n].reports : dps[n].reports[i].time > time}

\* dp_set.update(...): the drop points of the rows the four queries return.
dp_set(time) ==
    {n \in DOMAIN dps : dps[n].time > time}
      \cup {n \in DOMAIN dps : \E i \in DOMAIN dps[n].locations : dps[n].locations[i].time > time}
      \cup {n \in DOMAIN dps : \E i \in DOMAIN dps[n].visits : dps[n].visits[i].time > time}
      \cup {n \in DOMAIN dps : \E i \in DOMAIN dps[n].reports : dps[n].reports[i].time > time}

\* The keys of the dictionary get_dps_json(time) serialises.
get_dps_json(time) ==
    LET listed == IF time = NoTime THEN DOMAIN dps ELSE dp_set(time)
    IN  {n : n \in listed}

\* ------------------------------------------------------------------- clock
Tick ==
    /\ now < MaxTime
    /\ now' = now + 1
    /\ UNCHANGED <<dps, metrics, ever_created, last_result, writers>>

\* --------------------------------------------------------------------- spec
Init ==
    /\ dps = <<>>
    /\ metrics = [k \in Keys |-> 0]
    /\ now = 0
    /\ ever_created = {}
    /\ last_result = [op |-> "init"]
    /\ writers = [w \in Writers |-> idle]

\* Creation with every kind of argument; drop points come and go.
Next ==
    \/ Tick
    \/ \E number \in NumberInputs, category_id \in {default_category_id, unknown_category},
          loc_valid \in BOOLEAN, time \in TimeInputs :
            DropPoint(number, category_id, loc_valid, time)
    \/ \E number \in NumberInputs, loc_valid \in BOOLEAN :
            create_dp(number, loc_valid)
    \/ \E n \in 1..MaxNum : remove(n, TimeNone)

Spec == Init /\ [][Next]_vars

\* Removal with every kind of argument, of drop points made by the create view.
NextRemove ==
    \/ Tick
    \/ \E number \in NumberInputs, loc_valid \in BOOLEAN :
            create_dp(number, loc_valid)
    \/ \E n \in 1..MaxNum, time \in TimeInputs : remove(n, time)

SpecRemove == Init /\ [][NextRemove]_vars

\* Constructor calls with every kind of argument, each kept with its outcome.
NextArgs ==
    \/ Tick
    \/ \E number \in NumberInputs, category_id \in CategoryInputs,
          loc_valid \in BOOLEAN, time \in TimeInputs :
            DropPoint_args(number, category_id, loc_valid, time)
    \/ \E n \in 1..MaxNum : remove(n, TimeNone)

SpecArgs == Init /\ [][NextArgs]_vars

\* The reports and visits of one drop point; report() and visit() read and
\* write no row of another one.
NextEvents ==
    \/ Tick
    \/ create_dp(Num(1), TRUE)
    \/ \E state \in States, time \in TimeInputs \ {TimeBad} :
            report(1, state, time)
    \/ \E action \in Actions, time \in TimeInputs \ {TimeBad} :
            visit(1, action, time)

SpecEvents == Init /\ [][NextEvents]_vars

\* The whole life of one drop point: created by the view, moved, reported,
\* visited and removed, in any order (a removed drop point still takes
\* reports and visits).
NextLife ==
    \/ Tick
    \/ create_dp(Num(1), TRUE)
    \/ relocate(1, TimeNone)
    \/ \E state \in {"FULL", empty_state} : report(1, state, TimeNone)
    \/ \E action \in Actions, time \in TimeInputs \ {TimeBad} :
            visit(1, action, time)
    \/ \E time \in TimeInputs : remove(1, time)

SpecLife == Init /\ [][NextLife]_vars

\* Several drop points with changes at different times, as get_dps_json sees
\* them: the payload of an event does not matter to it, its timestamp does.
\* The first drop point is the one that moves, the last one the one that is
\* removed.
NextSnapshot ==
    \/ Tick
    \/ \E n \in {1, MaxNum} : create_dp(Num(n), TRUE)
    \/ \E n \in DOMAIN dps \cap {1} : relocate(n, TimeNone)
    \/ \E n \in DOMAIN dps : report(n, "FULL", TimeNone)
    \/ \E n \in DOMAIN dps : visit(n, Visit_actions[2], TimeNone)
    \/ \E n \in DOMAIN dps \cap {MaxNum} : remove(n, TimeNone)

SpecSnapshot == Init /\ [][NextSnapshot]_vars

\* Two requests report on one drop point at the same time; the statements of
\* the setter interleave.
NextConcurrent ==
    \/ Tick
    \/ create_dp(Num(1), TRUE)
    \/ \E w \in Writers, state \in {"FULL", empty_state} : last_state_dec(w, 1, state)
    \/ \E w \in Writers : last_state_inc(w)
    \/ \E w \in Writers : last_state_write(w)

SpecConcurrent == Init /\ [][NextConcurrent]_vars

\* ------------------------------------------------------------------ claims
CreateOps == {"DropPoint", "create_dp"}

error_keys(errors) == {errors[i][1] : i \in DOMAIN errors}

Last(seq) == seq[Len(seq)]

\* The step is a call, not a tick of the clock: last_result' is its outcome.
IsCall == now' = now

\* C1: a create call whose number is the number of an existing drop point,
\* active or removed, raises an error list with an entry for the number
\* field, and the tables and the gauge are as they were before the call.
C1_TakenNumberFails ==
    [][(/\ IsCall
        /\ last_result'.op \in CreateOps
        /\ last_result'.number.isnum
        /\ last_result'.number.val \in DOMAIN dps)
       => /\ ~last_result'.ok
          /\ "number" \in error_keys(last_result'.errors)
          /\ dps' = dps
          /\ metrics' = metrics]_vars

\* The last call was a create with the number of a removed drop point.
C1_Witness ==
    /\ last_result.op \in CreateOps
    /\ ~last_result.ok
    /\ <<"number", "exists">> \in {last_result.errors[i] : i \in DOMAIN last_result.errors}
    /\ dps[last_result.number.val].removed # NoTime

\* The fields of a create call that do not validate.
failing_fields(number, category_id, loc_valid, time) ==
    {k \in {"number", "cat_id", "DropPoint", "Location"} :
        \/ k = "number" /\ (\/ ~number.isnum
                            \/ number.val < 1
                            \/ number.val \in DOMAIN dps)
        \/ k = "cat_id" /\ category_id \notin all_categories
        \/ k = "DropPoint" /\ (\/ time.kind = "bad"
                               \/ time.kind = "dt" /\ time.val > now)
        \/ k = "Location" /\ ~loc_valid}

\* C2: the error list a create call raises has an entry for each field that
\* does not validate, the location included when the number, the category or
\* the time fails too.  (A call that raises leaves the tables alone, so the
\* fields are judged against the tables as they are after it.)
C2_AllErrorsCollected ==
    (last_result.op = "DropPoint" /\ ~last_result.ok)
        => error_keys(last_result.errors)
             = failing_fields(last_result.number, last_result.args.category_id,
                              last_result.args.loc_valid, last_result.args.time)

\* C3: a create call that returns adds exactly one drop point, with exactly
\* one location, stamped with the creation time of the drop point; a create
\* call that raises leaves the tables as they were.
C3_CreateAtomic ==
    [][(IsCall /\ last_result'.op \in CreateOps)
       => IF last_result'.ok
          THEN LET n == last_result'.number.val
               IN  /\ n \notin DOMAIN dps
                   /\ DOMAIN dps' = DOMAIN dps \cup {n}
                   /\ \A m \in DOMAIN dps : dps'[m] = dps[m]
                   /\ Len(dps'[n].locations) = 1
                   /\ dps'[n].locations[1].time = dps'[n].time
          ELSE dps' = dps]_vars

\* The last call created a drop point with a creation time in the past.
C3_Witness ==
    /\ last_result.op \in CreateOps
    /\ last_result.ok
    /\ dps[last_result.number.val].time < now
    /\ dps[last_result.number.val].removed = NoTime
    /\ Len(dps[last_result.number.val].locations) = 1

\* C4: remove() on a drop point that is removed raises the state error and
\* changes nothing: the removal time and the gauge keep their values.
C4_RemoveTwiceFails ==
    [][(/\ IsCall
        /\ last_result'.op = "remove"
        /\ dps[last_result'.number.val].removed # NoTime)
       => /\ ~last_result'.ok
          /\ error_keys(last_result'.errors) = {"RuntimeError"}
          /\ dps' = dps
          /\ metrics' = metrics]_vars

\* The last call was a remove() of a removed drop point.
C4_Witness ==
    /\ last_result.op = "remove"
    /\ ~last_result.ok
    /\ error_keys(last_result.errors) = {"RuntimeError"}
    /\ dps[last_result.number.val].removed # NoTime

\* C5: the removal time of a drop point, if set, is not before its creation
\* time and not after the current time.
C5_RemovalTimeInRange ==
    \A n \in DOMAIN dps :
        dps[n].removed # NoTime
            => dps[n].time <= dps[n].removed /\ dps[n].removed <= now

\* C6: get_next_free_number() is 1 if no drop point was ever created and one
\* more than the highest number ever created otherwise, so it is never the
\* number of a drop point that exists or was removed.
C6_NextFreeNumber ==
    /\ ever_created = {} => get_next_free_number = 1
    /\ ever_created # {} => get_next_free_number - 1 \in ever_created
    /\ \A n \in ever_created : n < get_next_free_number

\* Every number was created and the highest one has been removed.
C6_Witness ==
    /\ ever_created = 1..MaxNum
    /\ dps[MaxNum].removed # NoTime
    /\ \A n \in 1..(MaxNum - 1) : dps[n].removed = NoTime
    /\ get_next_free_number = MaxNum + 1

\* The rows of a table with the greatest timestamp.
latest(rows) ==
    {rows[i] : i \in {j \in DOMAIN rows : \A k \in DOMAIN rows : rows[k].time <= rows[j].time}}

\* The state the event log of a drop point stands for (timestamps that tie
\* leave a choice of the latest row).
derived_states(row) ==
    IF row.reports = <<>>
    THEN {default_last_state}
    ELSE IF row.visits = <<>>
    THEN {r.state : r \in latest(row.reports)}
    ELSE {IF r.time > v.time THEN r.state
          ELSE IF v.action = Visit_actions[1] THEN empty_state
          ELSE r.state : r \in latest(row.reports), v \in latest(row.visits)}

\* C7: the cached last_state of a drop point is the state derived from its
\* reports and visits.
C7_CacheIsDerived ==
    \A n \in DOMAIN dps : dps[n].last_state \in derived_states(dps[n])

\* A visit that returns, right after a report on the same drop point that
\* returned, with a timestamp after the one of the report.
VisitAfterReport(n) ==
    /\ IsCall
    /\ last_result.op = "report" /\ last_result.ok /\ last_result.number.val = n
    /\ last_result'.op = "visit" /\ last_result'.ok /\ last_result'.number.val = n
    /\ Last(dps'[n].visits).time > Last(dps[n].reports).time

\* C8: after a report of any state and then a later visit that emptied the
\* drop point, last_state is the empty state.
C8_EmptiedVisitEmpties ==
    [][\A n \in DOMAIN dps :
        (VisitAfterReport(n) /\ Last(dps'[n].visits).action = Visit_actions[1])
            => dps'[n].last_state = empty_state]_vars

\* The last call was an emptying visit, after a report of the state FULL.
C8_Witness ==
    /\ last_result.op = "visit" /\ last_result.ok
    /\ LET row == dps[last_result.number.val]
       IN  /\ Len(row.reports) = 1 /\ Len(row.visits) = 1
           /\ row.reports[1].state = "FULL"
           /\ row.visits[1].action = Visit_actions[1]
           /\ row.visits[1].time > row.reports[1].time
           /\ row.last_state = empty_state

\* C9: after a report of any state and then a later visit that did not empty
\* the drop point, last_state is still the reported state.
C9_OtherVisitKeepsState ==
    [][\A n \in DOMAIN dps :
        (VisitAfterReport(n) /\ Last(dps'[n].visits).action # Visit_actions[1])
            => dps'[n].last_state = Last(dps[n].reports).state]_vars

\* The last call was a visit without action, after a report of the state FULL.
C9_Witness ==
    /\ last_result.op = "visit" /\ last_result.ok
    /\ LET row == dps[last_result.number.val]
       IN  /\ Len(row.reports) = 1 /\ Len(row.visits) = 1
           /\ row.reports[1].state = "FULL"
           /\ row.visits[1].action = Visit_actions[2]
           /\ row.visits[1].time > row.reports[1].time
           /\ row.last_state = "FULL"

\* C10: a report that returns sets last_state to the reported state, whatever
\* the state before; with one report and no visit, last_state is its state.
C10_ReportSetsState ==
    /\ [][\A n \in DOMAIN dps :
            (/\ IsCall
             /\ last_result'.op = "report" /\ last_result'.ok
             /\ last_result'.number.val = n)
                => dps'[n].last_state = Last(dps'[n].reports).state]_vars
    /\ [](\A n \in DOMAIN dps :
            (Len(dps[n].reports) = 1 /\ dps[n].visits = <<>>)
                => dps[n].last_state = dps[n].reports[1].state)

\* The last call was a report of the state FULL on an emptied drop point.
C10_Witness ==
    /\ last_result.op = "report" /\ last_result.ok
    /\ LET row == dps[last_result.number.val]
       IN  /\ Len(row.reports) = 2 /\ Len(row.visits) = 1
           /\ row.reports[1].state = "EMPTY"
           /\ row.visits[1].action = Visit_actions[1]
           /\ row.reports[2].state = "FULL"
           /\ row.last_state = "FULL"

\* C11: a drop point without reports whose visits, if any, did not empty it
\* has the state new, right after its creation and after any such visits.
C11_NoReportIsNew ==
    \A n \in DOMAIN dps :
        (/\ dps[n].reports = <<>>
         /\ \A i \in DOMAIN dps[n].visits : dps[n].visits[i].action # "EMPTIED")
            => dps[n].last_state = "NEW"

\* A drop point without reports that was visited twice without action.
C11_Witness ==
    \E n \in DOMAIN dps :
        /\ dps[n].reports = <<>>
        /\ Len(dps[n].visits) = 2
        /\ \A i \in DOMAIN dps[n].visits : dps[n].visits[i].action = "NO_ACTION"
        /\ dps[n].last_state = "NEW"

\* The number of drop points that are not removed and have the given cached
\* state and category.
count_active(key) ==
    Cardinality({n \in DOMAIN dps : /\ dps[n].removed = NoTime
                                    /\ dps[n].last_state = key[1]
                                    /\ dps[n].category_id = key[2]})

\* C12: every counter equals the number of active drop points with that cached
\* state and category, and no counter is negative, whatever sequence of
\* creations, location changes, reports, visits and removals has happened.
C12_CountersMatchStates ==
    \A key \in Keys : metrics[key] = count_active(key) /\ metrics[key] >= 0

newest_first(reports, s) ==
    \A i, j \in DOMAIN s : i < j => reports[s[i]].time >= reports[s[j]].time

\* The positions of the reports with a timestamp after every visit.
after_all_visits(row) ==
    {i \in DOMAIN row.reports :
        \A j \in DOMAIN row.visits : row.reports[i].time > row.visits[j].time}

\* C14: new_reports returns exactly the reports with a timestamp strictly
\* after the greatest visit timestamp (all reports without a visit), each
\* once, newest first; a report at the time of the latest visit is left out.
C14_NewReports ==
    \A n \in DOMAIN dps :
        /\ new_reports(dps[n]) # {}
        /\ \A s \in new_reports(dps[n]) :
              /\ {s[i] : i \in DOMAIN s} = after_all_visits(dps[n])
              /\ Len(s) = Cardinality(after_all_visits(dps[n]))
              /\ newest_first(dps[n].reports, s)

\* A visit, a report with the timestamp of the visit and a later report:
\* only the later report is new.
C14_Witness ==
    \E n \in DOMAIN dps :
        /\ \E i \in DOMAIN dps[n].reports, j \in DOMAIN dps[n].visits :
              dps[n].reports[i].time = dps[n].visits[j].time
        /\ \E s \in new_reports(dps[n]) : Len(s) = 1
        /\ Len(dps[n].reports) = 2

\* The timestamps of everything recorded for a drop point.
change_times(row) ==
    {row.time} \cup {row.locations[i].time : i \in DOMAIN row.locations}
               \cup {row.reports[i].time : i \in DOMAIN row.reports}
               \cup {row.visits[i].time : i \in DOMAIN row.visits}

\* C15: get_dps_json(time=T) lists exactly the drop points with a creation,
\* location change, report or visit after T, and every drop point, active or
\* removed, when no time is given.
C15_SnapshotFilter ==
    /\ \A T \in 0..MaxTime :
          get_dps_json(T) = {n \in DOMAIN dps : \E t \in change_times(dps[n]) : t > T}
    /\ get_dps_json(NoTime) = DOMAIN dps

\* An old drop point without changes after time 0 and one whose only change
\* after time 0 is a visit, one of the two removed.
C15_Witness ==
    \E n, m \in DOMAIN dps :
        /\ n \notin get_dps_json(0)
        /\ m \in get_dps_json(0)
        /\ dps[m].time = 0 /\ Len(dps[m].locations) = 1 /\ dps[m].reports = <<>>
        /\ dps[n].removed # NoTime \/ dps[m].removed # NoTime
        /\ get_dps_json(NoTime) = {n, m}

\* C16: a drop point created by the create view, which names no category,
\* has the default category of the column.
C16_DefaultCategory ==
    (last_result.op = "create_dp" /\ last_result.ok)
        => dps[last_result.number.val].category_id = column_default_category_id

\* The step is a call of remove() on the active drop point n.
RemoveActive(n) ==
    /\ IsCall
    /\ last_result'.op = "remove" /\ last_result'.number.val = n
    /\ dps[n].removed = NoTime

\* C18: remove() with a time in the future fails and changes neither the
\* drop point nor the counters; a remove() that returns sets removed to the
\* given time, or to now without one, and decrements only the counter of the
\* drop point's last_state and category, by one.
C18_Remove ==
    [][\A n \in DOMAIN dps : RemoveActive(n) =>
          LET time == last_result'.time
          IN  /\ (time.kind = "dt" /\ time.val > now)
                    => ~last_result'.ok /\ dps' = dps /\ metrics' = metrics
              /\ last_result'.ok
                    => /\ dps'[n].removed = IF time.kind = "dt" THEN time.val ELSE now
                       /\ \A key \in Keys :
                             metrics'[key] = metrics[key]
                                 - (IF key = <<dps[n].last_state, dps[n].category_id>>
                                    THEN 1 ELSE 0)]_vars

\* A remove() with a time in the future has just failed on an active, reported
\* drop point.
C18_Witness ==
    /\ last_result.op = "remove" /\ ~last_result.ok
    /\ last_result.time.kind = "dt" /\ last_result.time.val > now
    /\ dps[last_result.number.val].removed = NoTime
    /\ dps[last_result.number.val].reports # <<>>

\* How often the row r occurs in rows.
occurrences(rows, r) == Cardinality({i \in DOMAIN rows : rows[i] = r})

\* Every row of old is a row of new, as often at least.
kept(old, new) ==
    \A i \in DOMAIN old : occurrences(old, old[i]) <= occurrences(new, old[i])

\* C19: no step deletes a drop point, a location, a report or a visit, and
\* remove() changes nothing of a drop point but its removal timestamp.
C19_LogicalRemoval ==
    [][/\ DOMAIN dps \subseteq DOMAIN dps'
       /\ \A n \in DOMAIN dps :
             /\ kept(dps[n].locations, dps'[n].locations)
             /\ kept(dps[n].reports, dps'[n].reports)
             /\ kept(dps[n].visits, dps'[n].visits)
             /\ (IsCall /\ last_result'.op = "remove")
                   => dps'[n] = [dps[n] EXCEPT !.removed = dps'[n].removed]]_vars

\* A drop point that was moved, reported and visited has just been removed.
C19_Witness ==
    /\ last_result.op = "remove" /\ last_result.ok
    /\ LET row == dps[last_result.number.val]
       IN  /\ row.removed # NoTime
           /\ Len(row.locations) = 2 /\ Len(row.reports) = 1 /\ Len(row.visits) = 1

\* The greatest timestamp of the visits of a drop point.
greatest_visit_time(row) ==
    CHOOSE t \in {row.visits[i].time : i \in DOMAIN row.visits} :
        \A i \in DOMAIN row.visits : row.visits[i].time <= t

\* C20: priority_base_time is the greatest visit timestamp of a drop point
\* that was visited and its creation time otherwise, and no report, location
\* change or removal changes it.
C20_PriorityBaseTime ==
    [][\A n \in DOMAIN dps' :
          /\ priority_base_time(dps'[n]) =
                IF dps'[n].visits = <<>> THEN dps'[n].time
                ELSE greatest_visit_time(dps'[n])
          /\ (/\ n \in DOMAIN dps
              /\ IsCall
              /\ last_result'.op \in {"report", "relocate", "remove"})
                => priority_base_time(dps'[n]) = priority_base_time(dps[n])]_vars

\* A visit recorded after a later one, then a report: the base time is the
\* time of the later visit.
C20_Witness ==
    \E n \in DOMAIN dps :
        /\ Len(dps[n].visits) = 2
        /\ dps[n].visits[2].time < dps[n].visits[1].time
        /\ dps[n].reports # <<>>
        /\ priority_base_time(dps[n]) = dps[n].visits[1].time

\* The sum of all counters.
RECURSIVE sum_metrics(_)
sum_metrics(keys) ==
    IF keys = {}
    THEN 0
    ELSE LET key == CHOOSE k \in keys : TRUE
         IN  metrics[key] + sum_metrics(keys \ {key})

\* C17: when no request is inside the setter any more, every counter is the
\* number of active drop points with that state and category, and the
\* counters sum to the number of active drop points, however the statements
\* of two reports on one drop point interleaved.
C17_NoLostUpdate ==
    (\A w \in Writers : writers[w] = idle)
        => /\ \A key \in Keys : metrics[key] = count_active(key)
           /\ sum_metrics(Keys) = Cardinality({n \in DOMAIN dps : dps[n].removed = NoTime})

\* The step is a visit of drop point n that returns, with a timestamp after
\* the timestamps of all reports of n.
VisitNewerThanReports(n) ==
    /\ IsCall
    /\ last_result'.op = "visit" /\ last_result'.ok /\ last_result'.number.val = n
    /\ \A i \in DOMAIN dps'[n].reports :
          dps'[n].reports[i].time < Last(dps'[n].visits).time

\* C21: reports_new is the length of new_reports and at most reports_total,
\* after every step; a visit newer than all reports sets reports_new to 0 and
\* leaves reports_total as it was.
C21_ReportCounts ==
    [][\A n \in DOMAIN dps' :
          /\ \A s \in new_reports(dps'[n]) : get_dp_info(n)'.reports_new = Len(s)
          /\ get_dp_info(n)'.reports_new <= get_dp_info(n)'.reports_total
          /\ (n \in DOMAIN dps /\ VisitNewerThanReports(n))
                => /\ get_dp_info(n)'.reports_new = 0
                   /\ get_dp_info(n)'.reports_total = get_dp_info(n).reports_total]_vars

\* A drop point with two reports, one of them new, has just been visited
\* after both: no report is new, two are counted.
C21_Witness ==
    /\ last_result.op = "visit" /\ last_result.ok
    /\ LET n == last_result.number.val
       IN  /\ \A i \in DOMAIN dps[n].reports :
                 dps[n].reports[i].time < Last(dps[n].visits).time
           /\ get_dp_info(n).reports_total = 2
           /\ get_dp_info(n).reports_new = 0
====
